---- MODULE Spec2Model ----
(***************************************************************************)
(* A model of svgling/core.py: the tree layout engine (TreeLayout), its    *)
(* path queries and its annotation operations.                             *)
(*                                                                         *)
(* Numbers that the program keeps as Python floats are modelled as exact   *)
(* rationals <<numerator, denominator>> in lowest terms with a positive    *)
(* denominator, so that equal values are equal tuples.                     *)
(***************************************************************************)
EXTENDS Integers, Sequences, FiniteSets, TLC

(***************************************************************************)
(* Bounds of the model.                                                    *)
(***************************************************************************)
\* largest number of nodes of an input tree
MaxNodes == 4
\* largest number of movement_arrow calls on one layout (ArrowSpec)
MaxArrows == 3
\* largest number of annotation calls (box, underline, arrow) on one layout
\* (AnnotSpec)
MaxCalls == 2

\* With(e, LAMBDA v : body) is body with v bound to the value of e, which is
\* computed once: the local variables of the code are written this way
With(v, F(_)) == F(v)

(***************************************************************************)
(* Exact rational arithmetic.                                              *)
(***************************************************************************)
Abs(n) == IF n < 0 THEN -n ELSE n

RECURSIVE GCD(_, _)
GCD(a, b) == IF b = 0 THEN a ELSE GCD(b, a % b)

Rat(n, d) ==
    With(GCD(Abs(n), Abs(d)), LAMBDA g :
        IF d < 0 THEN <<(-n) \div g, (-d) \div g>> ELSE <<n \div g, d \div g>>)

Int2Rat(n) == <<n, 1>>

RAdd(a, b) == Rat(a[1] * b[2] + b[1] * a[2], a[2] * b[2])

RSub(a, b) == Rat(a[1] * b[2] - b[1] * a[2], a[2] * b[2])

RMul(a, b) == Rat(a[1] * b[1], a[2] * b[2])

RDiv(a, b) == Rat(a[1] * b[2], a[2] * b[1])

RLt(a, b) == a[1] * b[2] < b[1] * a[2]

RLe(a, b) == a[1] * b[2] <= b[1] * a[2]

RMax(a, b) == IF RLt(a, b) THEN b ELSE a

RMin(a, b) == IF RLt(b, a) THEN b ELSE a

R0 == Int2Rat(0)

R100 == Int2Rat(100)

\* sum of a sequence of rationals, left to right, as Python's sum()
RECURSIVE RSum(_)
RSum(s) == IF s = <<>> THEN R0 ELSE RAdd(RSum(SubSeq(s, 1, Len(s) - 1)), s[Len(s)])

\* maximum of a non-empty sequence of rationals, as Python's max()
RECURSIVE RMaxOfSeq(_)
RMaxOfSeq(s) ==
    IF Len(s) = 1 THEN s[1]
    ELSE RMax(RMaxOfSeq(SubSeq(s, 1, Len(s) - 1)), s[Len(s)])

\* maximum of a non-empty sequence of integers, as Python's max()
Max2(a, b) == IF b > a THEN b ELSE a

RECURSIVE MaxOfSeq(_)
MaxOfSeq(s) ==
    IF Len(s) = 1 THEN s[1]
    ELSE Max2(MaxOfSeq(SubSeq(s, 1, Len(s) - 1)), s[Len(s)])

\* concatenation of a sequence of sequences
RECURSIVE Flatten(_)
Flatten(ss) == IF ss = <<>> THEN <<>> ELSE ss[1] \o Flatten(Tail(ss))

(***************************************************************************)
(* Python sequence indexing: indices are 0-based, a negative index counts  *)
(* from the end, anything else raises IndexError.                          *)
(***************************************************************************)
InRange(s, c) == (-Len(s)) <= c /\ c < Len(s)

PyIndex(s, c) == IF c >= 0 THEN s[c + 1] ELSE s[Len(s) + c + 1]

(***************************************************************************)
(* Labels are strings, modelled as sequences of characters; NL is the      *)
(* newline character.                                                      *)
(***************************************************************************)
NL == "\n"

\* label.split("\n"): the sequence of lines of a label
RECURSIVE SplitLines(_)
SplitLines(label) ==
    IF label = <<>> THEN << <<>> >>
    ELSE With(SplitLines(Tail(label)), LAMBDA rest :
             IF Head(label) = NL THEN << <<>> >> \o rest
             ELSE << <<Head(label)>> \o rest[1] >> \o Tail(rest))

(***************************************************************************)
(* Input trees, after tree_split: a label and a sequence of subtrees.      *)
(***************************************************************************)
Tree(label, children) == [label |-> label, children |-> children]

tree_car(t) == t.label

tree_cdr(t) == t.children

is_leaf(t) == Len(tree_cdr(t)) = 0

RECURSIVE tree_depth(_)
tree_depth(t) ==
    IF tree_cdr(t) = <<>> THEN 1
    ELSE MaxOfSeq([i \in 1..Len(tree_cdr(t)) |-> tree_depth(tree_cdr(t)[i])]) + 1

common_parent(path1, path2) ==
    LET m == IF Len(path1) < Len(path2) THEN Len(path1) ELSE Len(path2)
        diff == {i \in 1..m : path1[i] # path2[i]}
    IN  IF diff # {}
        THEN SubSeq(path1, 1, (CHOOSE i \in diff : \A j \in diff : i <= j) - 1)
        ELSE IF Len(path1) < Len(path2) THEN path1 ELSE path2

(***************************************************************************)
(* TreeOptions.                                                            *)
(***************************************************************************)
HorizSpacing == {"TEXT", "EVEN", "NODES"}

VertAlign == {"TOP", "CENTER", "BOTTOM", "FULL"}

label_width(options, label) ==
    Rat(Len(label) + options.leaf_padding, options.average_glyph_width)

(***************************************************************************)
(* NodePos.  The field id stands for the identity of the Python object     *)
(* (NodePos defines no __eq__, so == compares identities): it is the       *)
(* structural position at which the node was created.                      *)
(***************************************************************************)
NodePos(id, x, y, width, height, depth) ==
    [id |-> id, x |-> x, y |-> y,
     width |-> RMax(width, Int2Rat(1)), inner_width |-> width,
     height |-> height, inner_height |-> height, depth |-> depth]

from_label(id, label, depth, options) ==
    IF Len(label) = 0
    THEN NodePos(id, Int2Rat(50), R0, label_width(options, <<>>), R0, depth)
    ELSE With(SplitLines(label), LAMBDA lines :
             NodePos(id, Int2Rat(50), R0,
                     RMaxOfSeq([i \in 1..Len(lines) |-> label_width(options, lines[i])]),
                     Int2Rat(Len(lines)), depth))

(***************************************************************************)
(* A layout is the Python list [node] + children: a NodePos and the        *)
(* layouts of the children.  tree_split applied to a layout takes its      *)
(* treelet_split_list branch and yields (node, children).                  *)
(***************************************************************************)
Layout(node, children) == [node |-> node, children |-> children]

\* leaf_iter on a layout: the NodePos objects of the leaves, left to right
RECURSIVE leaf_iter(_)
leaf_iter(t) ==
    IF Len(t.children) = 0 THEN <<t.node>>
    ELSE Flatten([i \in 1..Len(t.children) |-> leaf_iter(t.children[i])])

RECURSIVE leaf_nodecount(_, _)
leaf_nodecount(t, options) ==
    IF Len(t.children) = 0 THEN Int2Rat(1 + options.leaf_padding)
    ELSE RSum([i \in 1..Len(t.children) |-> leaf_nodecount(t.children[i], options)])

(***************************************************************************)
(* Pass 1: _build_initial_layout.  The pass updates self.level_heights as  *)
(* it goes, so the operator threads level_heights (lh) through the         *)
(* recursion and returns the layout together with the updated map.         *)
(***************************************************************************)
\* [c[0].width for c in result_children]
widths_of(l) == [i \in 1..Len(l) |-> l[i].node.width]

RECURSIVE build_initial_layout(_, _, _, _, _, _)
RECURSIVE build_children(_, _, _, _, _, _, _)
\* a variant that aggregates a leaf's height at the deepest level but gives
\* the node its structural depth
build_initial_layout_true_depth(t, level0, id, options, depth, lh) ==
    With(IF Len(tree_cdr(t)) = 0 /\ options.leaf_nodes_align
         THEN depth ELSE level0, LAMBDA level :
    With(from_label(id, tree_car(t), level0, options), LAMBDA node :
    With(build_children(tree_cdr(t), 1, level0 + 1, id, options, depth,
                        [lh EXCEPT ![level] = RMax(lh[level], node.height)]),
         LAMBDA result :
        [layout |-> Layout([node EXCEPT !.width =
                               RMax(node.width, RSum(widths_of(result.layouts)))],
                           result.layouts),
         lh |-> result.lh])))

build_initial_layout(t, level0, id, options, depth, lh) ==
    With(IF Len(tree_cdr(t)) = 0 /\ options.leaf_nodes_align
         THEN depth ELSE level0, LAMBDA level :
    With(from_label(id, tree_car(t), level, options), LAMBDA node :
    With(build_children(tree_cdr(t), 1, level + 1, id, options, depth,
                        [lh EXCEPT ![level] = RMax(lh[level], node.height)]),
         LAMBDA result :
        [layout |-> Layout([node EXCEPT !.width =
                               RMax(node.width, RSum(widths_of(result.layouts)))],
                           result.layouts),
         lh |-> result.lh])))

\* result_children, built left to right
build_children(cs, i, level, id, options, depth, lh) ==
    IF i > Len(cs) THEN [layouts |-> <<>>, lh |-> lh]
    ELSE With(build_initial_layout(cs[i], level, Append(id, i - 1),
                                   options, depth, lh), LAMBDA r :
         With(build_children(cs, i + 1, level, id, options, depth, r.lh),
              LAMBDA rest :
             [layouts |-> <<r.layout>> \o rest.layouts, lh |-> rest.lh]))

(***************************************************************************)
(* Pass 2: _subtree_proportions and _normalize_widths.                     *)
(***************************************************************************)
\* a variant that divides by the number of siblings instead of by their sum
subtree_proportions_by_count(l, options) ==
    IF Len(l) = 0 THEN <<>>
    ELSE IF options.horiz_spacing = "EVEN"
    THEN [i \in 1..Len(l) |-> RDiv(R100, Int2Rat(Len(l)))]
    ELSE With([i \in 1..Len(l) |->
                  IF options.horiz_spacing = "TEXT"
                  THEN l[i].node.width
                  ELSE leaf_nodecount(l[i], options)], LAMBDA widths :
             [i \in 1..Len(l) |-> RDiv(RMul(widths[i], R100), Int2Rat(Len(l)))])

\* a variant that spaces by leaf count under TEXT as well
subtree_proportions_leaf_count(l, options) ==
    IF Len(l) = 0 THEN <<>>
    ELSE IF options.horiz_spacing = "EVEN"
    THEN [i \in 1..Len(l) |-> RDiv(R100, Int2Rat(Len(l)))]
    ELSE With([i \in 1..Len(l) |-> leaf_nodecount(l[i], options)], LAMBDA widths :
         With(RSum(widths), LAMBDA sum :
             [i \in 1..Len(l) |-> RDiv(RMul(widths[i], R100), sum)]))

subtree_proportions(l, options) ==
    IF Len(l) = 0 THEN <<>>
    ELSE IF options.horiz_spacing = "EVEN"
    THEN [i \in 1..Len(l) |-> RDiv(R100, Int2Rat(Len(l)))]
    ELSE With([i \in 1..Len(l) |->
                  IF options.horiz_spacing = "TEXT"
                  THEN l[i].node.width
                  ELSE leaf_nodecount(l[i], options)], LAMBDA widths :
         With(RSum(widths), LAMBDA sum :
             [i \in 1..Len(l) |-> RDiv(RMul(widths[i], R100), sum)]))

RECURSIVE normalize_widths(_, _)
normalize_widths(t, options) ==
    With([i \in 1..Len(t.children) |-> normalize_widths(t.children[i], options)],
         LAMBDA children :
    With(subtree_proportions(children, options), LAMBDA widths :
        Layout(t.node,
               [i \in 1..Len(children) |->
                   Layout([children[i].node EXCEPT
                              !.width = widths[i],
                              !.x = RSum(SubSeq(widths, 1, i - 1))],
                          children[i].children)])))

(***************************************************************************)
(* Pass 3: _calc_level_ys, label_y_dodge and _normalize_y.                 *)
(***************************************************************************)
\* a variant that measures the offset of a row by the height of the row
\* itself, not by the height of the row above
calc_level_ys_own_row(options, depth, level_heights) ==
    [i \in 0..depth |->
        IF i = 0 THEN R0
        ELSE RAdd(Int2Rat(options.distance_to_daughter), level_heights[i])]

calc_level_ys(options, depth, level_heights) ==
    [i \in 0..depth |->
        IF i = 0 THEN R0
        ELSE RAdd(Int2Rat(options.distance_to_daughter), level_heights[i - 1])]

\* label_y_dodge(level=level, height=height): (top dodge, bottom dodge)
label_y_dodge(options, level_heights, level, height) ==
    IF options.vert_align = "TOP"
    THEN <<R0, RSub(level_heights[level], height)>>
    ELSE IF options.vert_align = "BOTTOM"
    THEN <<RSub(level_heights[level], height), R0>>
    ELSE IF options.vert_align = "CENTER"
    THEN With(RDiv(RSub(level_heights[level], height), Int2Rat(2)),
              LAMBDA dodge : <<dodge, dodge>>)
    ELSE <<R0, R0>>

RECURSIVE normalize_y(_, _, _)
normalize_y(t, options, level_heights) ==
    With(IF options.vert_align = "FULL"
         THEN [t.node EXCEPT !.height = level_heights[t.node.depth]]
         ELSE t.node, LAMBDA parent :
        Layout([parent EXCEPT !.y =
                   label_y_dodge(options, level_heights,
                                 parent.depth, parent.height)[1]],
               [i \in 1..Len(t.children) |->
                   normalize_y(t.children[i], options, level_heights)]))

(***************************************************************************)
(* _do_layout: the fields of a TreeLayout after construction.              *)
(***************************************************************************)
do_layout(t, options) ==
    With(tree_depth(t) - 1, LAMBDA depth :
    With(build_initial_layout(t, 0, <<>>, options, depth, [i \in 0..depth |-> R0]),
         LAMBDA built :
        [depth |-> depth,
         level_heights |-> built.lh,
         level_ys |-> calc_level_ys(options, depth, built.lh),
         max_width |-> built.layout.node.width,
         layout |-> normalize_y(
                        normalize_widths(
                            Layout([built.layout.node EXCEPT !.width = R100, !.x = R0],
                                   built.layout.children),
                            options),
                        options, built.lh)]))

(***************************************************************************)
(* The state of one TreeLayout object, and the outcome of the last call    *)
(* made on it (ret): the operation, its arguments, whether it returned or  *)
(* raised AttributeError, and the value returned or the (index, daughter)  *)
(* pair of the error message.                                              *)
(***************************************************************************)
VARIABLES tree, options, layout, level_heights, level_ys, depth, max_width,
          extra_y, annotations, movement_arrows, ret

vars == <<tree, options, layout, level_heights, level_ys, depth, max_width,
          extra_y, annotations, movement_arrows, ret>>

\* the fields of the object, without the outcome of the last call
self == <<tree, options, layout, level_heights, level_ys, depth, max_width,
          extra_y, annotations, movement_arrows>>

Returned(op, args, value) ==
    [op |-> op, args |-> args, outcome |-> "returned", value |-> value]

(***************************************************************************)
(* Layout information: height, y_distance.                                 *)
(***************************************************************************)
height ==
    RAdd(RAdd(RSum([l \in 1..(depth + 1) |-> level_ys[l - 1]]),
              level_heights[depth]),
         extra_y)

y_distance(level_a, level_b) ==
    With(IF depth < level_b THEN depth ELSE level_b, LAMBDA b :
        RSum([k \in 1..(IF b > level_a THEN b - level_a ELSE 0) |->
                 level_ys[level_a + k]]))

(***************************************************************************)
(* layout_iter, sublayout: walking a path.  layout_iter raises             *)
(* AttributeError at the first step whose index is out of range.           *)
(***************************************************************************)
RECURSIVE valid_path(_, _)
valid_path(t, path) ==
    \/ path = <<>>
    \/ /\ InRange(t.children, Head(path))
       /\ valid_path(PyIndex(t.children, Head(path)), Tail(path))

\* the (index, daughter) pair of "Invalid tree path at index %d (daughter %d)"
RECURSIVE invalid_at(_, _, _)
invalid_at(t, path, i) ==
    IF InRange(t.children, Head(path))
    THEN invalid_at(PyIndex(t.children, Head(path)), Tail(path), i + 1)
    ELSE <<i, Head(path)>>

Raised(op, args, path) ==
    [op |-> op, args |-> args, outcome |-> "AttributeError",
     value |-> invalid_at(layout, path, 0)]

\* list(self.layout_iter(path)) for a valid path
RECURSIVE layout_iter(_, _)
layout_iter(t, path) ==
    IF path = <<>> THEN <<t>>
    ELSE <<t>> \o layout_iter(PyIndex(t.children, Head(path)), Tail(path))

sublayout(path) ==
    With(layout_iter(layout, path), LAMBDA l : l[Len(l)])

(***************************************************************************)
(* nmost_path, leftmost_path, rightmost_path.  The loop counter i is never *)
(* advanced by the code, so the loop ends only on the IndexError raised    *)
(* at a node without children.                                             *)
(***************************************************************************)
RECURSIVE nmost_loop(_, _, _, _)
\* a variant that does not take the last step, into a node without children
nmost_loop_stops_early(children, path, i, n) ==
    IF i < depth + 1
    THEN IF InRange(children, n) /\ PyIndex(children, n).children # <<>>
         THEN nmost_loop(PyIndex(children, n).children, Append(path, n), i, n)
         ELSE path
    ELSE path

nmost_loop(children, path, i, n) ==
    IF i < depth + 1
    THEN IF InRange(children, n)
         THEN nmost_loop(PyIndex(children, n).children, Append(path, n), i, n)
         ELSE path
    ELSE path

nmost_path(path, n) ==
    nmost_loop(sublayout(path).children, path, Len(path), n)

leftmost_path(path) == nmost_path(path, 0)

rightmost_path(path) == nmost_path(path, -1)

(***************************************************************************)
(* node_x_vals, subtree_bounds.                                            *)
(***************************************************************************)
RECURSIVE x_vals_loop(_, _, _)
x_vals_loop(nodes, left, width) ==
    IF nodes = <<>> THEN <<left, width>>
    ELSE x_vals_loop(Tail(nodes),
                     RAdd(left, RDiv(RMul(Head(nodes).node.x, width), R100)),
                     RDiv(RMul(width, Head(nodes).node.width), R100))

node_x_vals(path) == x_vals_loop(layout_iter(layout, path), R0, R100)

\* [l.depth for l in leaves]
depths_of(leaves) == [i \in 1..Len(leaves) |-> leaves[i].depth]

\* a variant that measures down to the row of the node itself, not to the
\* row of its deepest leaf
subtree_bounds_own_row(path) ==
    With(sublayout(path), LAMBDA parent :
    With(node_x_vals(leftmost_path(path))[1], LAMBDA x :
    With(node_x_vals(rightmost_path(path)), LAMBDA right :
        <<x,
          y_distance(0, parent.node.depth),
          RSub(RAdd(right[1], right[2]), x),
          RAdd(level_heights[parent.node.depth], Rat(1, 2))>>)))

subtree_bounds(path) ==
    With(sublayout(path), LAMBDA parent :
    With(MaxOfSeq(depths_of(leaf_iter(parent))), LAMBDA deepest :
    With(node_x_vals(leftmost_path(path))[1], LAMBDA x :
    With(node_x_vals(rightmost_path(path)), LAMBDA right :
        <<x,
          y_distance(0, parent.node.depth),
          RSub(RAdd(right[1], right[2]), x),
          RAdd(RAdd(y_distance(parent.node.depth, deepest), level_heights[deepest]),
               Rat(1, 2))>>))))

(***************************************************************************)
(* leaf_span_iter, deepest_intervening_leaf.                               *)
(***************************************************************************)
\* the last index i (0-based) with s[i] == x, as the loop of leaf_span_iter
LastIndexOf(s, x) ==
    (CHOOSE i \in 1..Len(s) : s[i] = x /\ \A j \in (i + 1)..Len(s) : s[j] # x) - 1

\* s[left:right] for 0 <= left
PySlice(s, left, right) ==
    SubSeq(s, left + 1, IF right < Len(s) THEN right ELSE Len(s))

leaf_span_iter(path1, path2) ==
    With(leaf_iter(sublayout(common_parent(path1, path2))),
         LAMBDA constituent_leaves :
    With(leaf_iter(sublayout(path1)), LAMBDA path1_leaves :
    With(leaf_iter(sublayout(path2)), LAMBDA path2_leaves :
    With(LastIndexOf(constituent_leaves, path1_leaves[1]), LAMBDA path1_i :
    With(LastIndexOf(constituent_leaves, path2_leaves[1]), LAMBDA path2_i :
        IF path1_i < path2_i
        THEN PySlice(constituent_leaves, path1_i, path2_i + Len(path2_leaves))
        ELSE PySlice(constituent_leaves, path2_i, path1_i + Len(path1_leaves)))))))

deepest_intervening_leaf(path1, path2) ==
    MaxOfSeq(depths_of(leaf_span_iter(path1, path2)))

(***************************************************************************)
(* Annotations.  A shape is recorded with the numbers that the code hands  *)
(* to perc() and em() when it builds the svgwrite object.                  *)
(***************************************************************************)
Rect(insert, size) == [shape |-> "Rect", insert |-> insert, size |-> size]

Line(start, end) == [shape |-> "Line", start |-> start, end |-> end]

\* math.isclose(y, existing_y): the model's heights are exact, and two
\* different heights differ by far more than the relative tolerance 1e-09
isclose(a, b) == a = b

\* _movement_find_y without its final append: the height that is returned
RECURSIVE movement_find_y(_, _, _)
movement_find_y(x1, x2, y) ==
    IF \E k \in 1..Len(movement_arrows) :
           /\ isclose(y, movement_arrows[k][3])
           /\ (RLt(x1, movement_arrows[k][2]) \/ RLt(movement_arrows[k][1], x2))
    THEN movement_find_y(x1, x2, RAdd(y, Rat(1, 2)))
    ELSE y

\* the height at which movement_arrow first tries to place its arrow
arrow_default_y(path1, path2) ==
    With(deepest_intervening_leaf(path1, path2), LAMBDA y_depth :
        RAdd(RAdd(y_distance(0, y_depth), level_heights[y_depth]), Rat(6, 5)))

\* the bottom centre of a bounding box: where an arrow starts or ends
arrow_x(pos) == RAdd(pos[1], RDiv(pos[3], Int2Rat(2)))

arrow_y(pos) == RAdd(pos[2], pos[4])

\* a variant that puts the new rectangle before the annotations made so far
BoxConstituentPrepends(path) ==
    IF ~valid_path(layout, path)
    THEN ret' = Raised("box_constituent", <<path>>, path) /\ UNCHANGED self
    ELSE \E b \in {subtree_bounds(path)} :
             /\ annotations' = <<Rect(<<b[1], b[2]>>, <<b[3], b[4]>>)>> \o annotations
             /\ ret' = Returned("box_constituent", <<path>>, <<>>)
             /\ UNCHANGED <<tree, options, layout, level_heights, level_ys, depth,
                            max_width, extra_y, movement_arrows>>

BoxConstituent(path) ==
    IF ~valid_path(layout, path)
    THEN ret' = Raised("box_constituent", <<path>>, path) /\ UNCHANGED self
    ELSE \E b \in {subtree_bounds(path)} :
             /\ annotations' = Append(annotations, Rect(<<b[1], b[2]>>, <<b[3], b[4]>>))
             /\ ret' = Returned("box_constituent", <<path>>, <<>>)
             /\ UNCHANGED <<tree, options, layout, level_heights, level_ys, depth,
                            max_width, extra_y, movement_arrows>>

UnderlineConstituent(path) ==
    IF ~valid_path(layout, path)
    THEN ret' = Raised("underline_constituent", <<path>>, path) /\ UNCHANGED self
    ELSE \E b \in {subtree_bounds(path)} :
         \E bottom \in {RAdd(b[2], b[4])} :
             /\ annotations' = Append(annotations,
                                      Line(<<b[1], bottom>>, <<RAdd(b[1], b[3]), bottom>>))
             /\ ret' = Returned("underline_constituent", <<path>>, <<>>)
             /\ UNCHANGED <<tree, options, layout, level_heights, level_ys, depth,
                            max_width, extra_y, movement_arrows>>

\* a variant that reserves the room for the arrow before it looks up path2
MovementArrowGrowsFirst(path1, path2) ==
    IF ~valid_path(layout, path1)
    THEN ret' = Raised("movement_arrow", <<path1, path2>>, path1) /\ UNCHANGED self
    ELSE IF ~valid_path(layout, path2)
    THEN /\ ret' = Raised("movement_arrow", <<path1, path2>>, path2)
         /\ extra_y' = RMax(extra_y, Int2Rat(2))
         /\ UNCHANGED <<tree, options, layout, level_heights, level_ys, depth,
                        max_width, annotations, movement_arrows>>
    ELSE \E n1_pos \in {subtree_bounds(path1)}, n2_pos \in {subtree_bounds(path2)} :
         \E n1_y \in {arrow_y(n1_pos)}, n1_x \in {arrow_x(n1_pos)},
            n2_y \in {arrow_y(n2_pos)}, n2_x \in {arrow_x(n2_pos)} :
         \E x1 \in {RMin(n1_x, n2_x)}, x2 \in {RMax(n1_x, n2_x)} :
         \E y_target \in {movement_find_y(x1, x2, arrow_default_y(path1, path2))} :
             /\ movement_arrows' = Append(movement_arrows, <<x1, x2, y_target>>)
             /\ extra_y' = RMax(extra_y, Int2Rat(2))
             /\ annotations' = annotations \o
                    << Line(<<n1_x, n1_y>>, <<n1_x, y_target>>),
                       Line(<<n1_x, y_target>>, <<n2_x, y_target>>),
                       Line(<<n2_x, y_target>>, <<n2_x, n2_y>>),
                       Line(<<n2_x, n2_y>>,
                            <<RAdd(n2_x, Int2Rat(1)), RAdd(n2_y, Rat(9, 20))>>),
                       Line(<<n2_x, n2_y>>,
                            <<RSub(n2_x, Int2Rat(1)), RAdd(n2_y, Rat(9, 20))>>) >>
             /\ ret' = Returned("movement_arrow", <<path1, path2>>, y_target)
             /\ UNCHANGED <<tree, options, layout, level_heights, level_ys, depth,
                            max_width>>

MovementArrow(path1, path2) ==
    IF ~valid_path(layout, path1)
    THEN ret' = Raised("movement_arrow", <<path1, path2>>, path1) /\ UNCHANGED self
    ELSE IF ~valid_path(layout, path2)
    THEN ret' = Raised("movement_arrow", <<path1, path2>>, path2) /\ UNCHANGED self
    ELSE \E n1_pos \in {subtree_bounds(path1)}, n2_pos \in {subtree_bounds(path2)} :
         \E n1_y \in {arrow_y(n1_pos)}, n1_x \in {arrow_x(n1_pos)},
            n2_y \in {arrow_y(n2_pos)}, n2_x \in {arrow_x(n2_pos)} :
         \E x1 \in {RMin(n1_x, n2_x)}, x2 \in {RMax(n1_x, n2_x)} :
         \E y_target \in {movement_find_y(x1, x2, arrow_default_y(path1, path2))} :
             /\ movement_arrows' = Append(movement_arrows, <<x1, x2, y_target>>)
             /\ extra_y' = RMax(extra_y, Int2Rat(2))
             /\ annotations' = annotations \o
                    << Line(<<n1_x, n1_y>>, <<n1_x, y_target>>),
                       Line(<<n1_x, y_target>>, <<n2_x, y_target>>),
                       Line(<<n2_x, y_target>>, <<n2_x, n2_y>>),
                       Line(<<n2_x, n2_y>>,
                            <<RAdd(n2_x, Int2Rat(1)), RAdd(n2_y, Rat(9, 20))>>),
                       Line(<<n2_x, n2_y>>,
                            <<RSub(n2_x, Int2Rat(1)), RAdd(n2_y, Rat(9, 20))>>) >>
             /\ ret' = Returned("movement_arrow", <<path1, path2>>, y_target)
             /\ UNCHANGED <<tree, options, layout, level_heights, level_ys, depth,
                            max_width>>

(***************************************************************************)
(* Queries: they change nothing but the outcome of the last call.          *)
(***************************************************************************)
SubtreeBounds(path) ==
    /\ ret' = IF valid_path(layout, path)
              THEN Returned("subtree_bounds", <<path>>, subtree_bounds(path))
              ELSE Raised("subtree_bounds", <<path>>, path)
    /\ UNCHANGED self

Sublayout(path) ==
    /\ ret' = IF valid_path(layout, path)
              THEN Returned("sublayout", <<path>>, sublayout(path))
              ELSE Raised("sublayout", <<path>>, path)
    /\ UNCHANGED self

LeftmostPath(path) ==
    /\ ret' = IF valid_path(layout, path)
              THEN Returned("leftmost_path", <<path>>, leftmost_path(path))
              ELSE Raised("leftmost_path", <<path>>, path)
    /\ UNCHANGED self

RightmostPath(path) ==
    /\ ret' = IF valid_path(layout, path)
              THEN Returned("rightmost_path", <<path>>, rightmost_path(path))
              ELSE Raised("rightmost_path", <<path>>, path)
    /\ UNCHANGED self

LeafSpanIter(path1, path2) ==
    /\ ret' = IF ~valid_path(layout, common_parent(path1, path2))
              THEN Raised("leaf_span_iter", <<path1, path2>>,
                          common_parent(path1, path2))
              ELSE IF ~valid_path(layout, path1)
              THEN Raised("leaf_span_iter", <<path1, path2>>, path1)
              ELSE IF ~valid_path(layout, path2)
              THEN Raised("leaf_span_iter", <<path1, path2>>, path2)
              ELSE Returned("leaf_span_iter", <<path1, path2>>,
                            leaf_span_iter(path1, path2))
    /\ UNCHANGED self

(***************************************************************************)
(* Inputs: trees, options and the paths that calls are made with.          *)
(***************************************************************************)
\* the labels of the internal nodes and of the leaves of the trees of Spec
InnerLabels == {<<"a", "b">>}

LeafLabels == {<<"a">>, <<"a", "b">>}

\* the trees with exactly n nodes, and the non-empty sequences of trees with
\* m nodes in all
RECURSIVE TreesOfSize(_)
RECURSIVE ForestsOfSize(_)
TreesOfSize(n) ==
    IF n = 1 THEN {Tree(l, <<>>) : l \in LeafLabels}
    ELSE {Tree(l, f) : l \in InnerLabels, f \in ForestsOfSize(n - 1)}

ForestsOfSize(m) ==
    UNION {{<<t>> \o rest : t \in TreesOfSize(k),
                            rest \in (IF k = m THEN {<<>>} ELSE ForestsOfSize(m - k))}
           : k \in 1..m}

Trees == UNION {TreesOfSize(n) : n \in 1..MaxNodes}

\* (leaf_padding, average_glyph_width): the defaults, and no padding with
\* narrow glyphs, where every label of the trees is narrower than 1
Metrics == {<<2, 2>>, <<0, 4>>}

LayoutOptions ==
    {[horiz_spacing |-> h, vert_align |-> "CENTER", leaf_padding |-> m[1],
      distance_to_daughter |-> 2, leaf_nodes_align |-> a,
      average_glyph_width |-> m[2]]
        : h \in HorizSpacing, a \in BOOLEAN, m \in Metrics}

\* the trees annotated in AnnotSpec and ArrowSpec: a root with two leaves of
\* different widths, and a tree whose leaves lie at different depths
FlatTree == Tree(<<"a", "b">>, <<Tree(<<"a">>, <<>>), Tree(<<"a", "b">>, <<>>)>>)

DeepTree ==
    Tree(<<"a">>, <<Tree(<<"a">>, <<>>),
                    Tree(<<"a", "b">>, <<Tree(<<"a", NL, "b">>, <<>>)>>)>>)

AnnotTrees == {FlatTree, DeepTree}

\* the default options, with and without aligned leaves
AnnotOptions ==
    [horiz_spacing : {"TEXT"}, vert_align : {"CENTER"},
     leaf_padding : {2}, distance_to_daughter : {2},
     leaf_nodes_align : BOOLEAN, average_glyph_width : {2}]

\* the valid paths of a layout with non-negative indices
RECURSIVE ValidPaths(_)
ValidPaths(t) ==
    {<<>>} \cup UNION {{<<i - 1>> \o q : q \in ValidPaths(t.children[i])}
                       : i \in 1..Len(t.children)}

\* invalid paths: an index one past the last child of the root, alone and
\* followed by a further step, and child 0 of the root (when there is one)
\* followed by an index one past its last child
BadPaths(t) ==
    {<<Len(t.children)>>, <<Len(t.children), 0>>}
    \cup (IF Len(t.children) = 0 THEN {}
          ELSE {<<0, Len(t.children[1].children)>>})

CallPaths == ValidPaths(layout) \cup BadPaths(layout)

\* the second path of the movement_arrow calls of AnnotSpec: the root, and an
\* index one past the last child of the root
EndPaths == {<<>>, <<Len(layout.children)>>}

(***************************************************************************)
(* Construction: TreeLayout.__init__.                                      *)
(***************************************************************************)
Construct(t, o) ==
    \E l \in {do_layout(t, o)} :
        /\ tree = t
        /\ options = o
        /\ level_heights = l.level_heights
        /\ level_ys = l.level_ys
        /\ depth = l.depth
        /\ max_width = l.max_width
        /\ layout = l.layout
        /\ extra_y = Int2Rat(1)
        /\ annotations = <<>>
        /\ movement_arrows = <<>>
        /\ ret = Returned("__init__", <<>>, <<>>)

\* number of annotation calls that have returned
NumCalls == Len(annotations) - 4 * Len(movement_arrows)

(***************************************************************************)
(* Spec: construction of a layout for any tree and options, followed by    *)
(* queries.                                                                *)
(***************************************************************************)
Init == \E t \in Trees, o \in LayoutOptions : Construct(t, o)

Next ==
    \/ \E path \in CallPaths : SubtreeBounds(path)
    \/ \E path \in CallPaths : LeftmostPath(path)
    \/ \E path \in CallPaths : RightmostPath(path)
    \/ \E path1 \in CallPaths :
       \E path2 \in (IF valid_path(layout, path1) THEN ValidPaths(layout) ELSE {<<>>}) :
           LeafSpanIter(path1, path2)

Spec == Init /\ [][Next]_vars

(***************************************************************************)
(* ArrowSpec: sequences of movement_arrow calls on one layout.             *)
(***************************************************************************)
AnnotInit == \E t \in AnnotTrees, o \in AnnotOptions : Construct(t, o)

ArrowNext ==
    /\ Len(movement_arrows) < MaxArrows
    /\ \E path1 \in ValidPaths(layout), path2 \in ValidPaths(layout) :
           MovementArrow(path1, path2)

ArrowSpec == AnnotInit /\ [][ArrowNext]_vars

(***************************************************************************)
(* AnnotSpec: sequences of annotation calls and queries, with valid and    *)
(* invalid paths.                                                          *)
(***************************************************************************)
AnnotNext ==
    \/ /\ NumCalls < MaxCalls
       /\ \/ \E path \in CallPaths : BoxConstituent(path)
          \/ \E path \in CallPaths : UnderlineConstituent(path)
          \/ \E path1 \in CallPaths, path2 \in EndPaths : MovementArrow(path1, path2)
    \/ \E path \in CallPaths : SubtreeBounds(path)
    \/ \E path \in CallPaths : Sublayout(path)

AnnotSpec == AnnotInit /\ [][AnnotNext]_vars

(***************************************************************************)
(* SVG building.  A document is the tree of elements that svgwrite would   *)
(* serialize: each element is a record, a container carries the sequence   *)
(* of the elements added to it.  Lengths are kept as numbers (em for y,     *)
(* per cent for x).                                                        *)
(***************************************************************************)
\* the subtree of an input tree at a valid path
RECURSIVE subtree_at(_, _)
subtree_at(t, path) ==
    IF path = <<>> THEN t
    ELSE subtree_at(PyIndex(tree_cdr(t), Head(path)), Tail(path))

Text(line, insert) == [shape |-> "Text", text |-> line, insert |-> insert]

SVG(x, y, width, elements) ==
    [shape |-> "SVG", x |-> x, y |-> y, width |-> width, elements |-> elements]

\* a connector of the tree walk: a line that carries a stroke alone
Connector(start, end) ==
    [shape |-> "Line", start |-> start, end |-> end, stroke |-> "black"]

\* the rectangle that debug draws around a container
DebugRect(stroke) ==
    [shape |-> "Rect", insert |-> <<R0, R0>>, size |-> <<R100, R100>>,
     stroke |-> stroke]

\* int(n) for a non-negative number
int(n) == n[1] \div n[2]

\* NodePos.get_svg: the container built by from_label for the label of the
\* node (one Text per line, none for an empty label), with its y set
node_get_svg(node) ==
    With(tree_car(subtree_at(tree, node.id)), LAMBDA label :
        SVG(R0, node.y, R100,
            IF Len(label) = 0 THEN <<>>
            ELSE With(SplitLines(label), LAMBDA lines :
                     [i \in 1..Len(lines) |->
                         Text(lines[i], <<Int2Rat(50), Int2Rat(i)>>)])))

\* _svg_add_subtree: the elements it adds to svg_parent, in order
RECURSIVE svg_add_subtree(_)
svg_add_child(parent, line_start, c) ==
    With(y_distance(parent.depth, c.node.depth), LAMBDA box_y :
    With(RAdd(box_y, c.node.y), LAMBDA y_target :
    With(RAdd(c.node.x, RDiv(c.node.width, Int2Rat(2))), LAMBDA x_target :
        << SVG(c.node.x, box_y, c.node.width,
               (IF options.debug THEN <<DebugRect("red")>> ELSE <<>>)
                   \o svg_add_subtree(c)) >>
        \o (IF c.node.depth > parent.depth + 1 /\ ~options.descend_direct
            THEN With(RAdd(label_y_dodge(options, level_heights,
                                         parent.depth + 1, R0)[1],
                           y_distance(parent.depth, parent.depth + 1)),
                      LAMBDA intermediate_y :
                     << Connector(<<Int2Rat(50), line_start>>,
                                  <<x_target, intermediate_y>>),
                        Connector(<<x_target, intermediate_y>>,
                                  <<x_target, y_target>>) >>)
            ELSE << Connector(<<Int2Rat(50), line_start>>,
                              <<x_target, y_target>>) >>))))

svg_add_subtree(t) ==
    With(IF RLt(R0, t.node.height)
         THEN RAdd(RAdd(t.node.y, t.node.height), Rat(1, 5))
         ELSE RAdd(t.node.y, t.node.height), LAMBDA line_start :
        <<node_get_svg(t.node)>>
        \o Flatten([i \in 1..Len(t.children) |->
                        svg_add_child(t.node, line_start, t.children[i])]))

\* the grid that debug lays over the canvas
debug_grid ==
    IF options.debug
    THEN <<DebugRect("lightgray")>>
         \o [i \in 1..(int(max_width) - 1) |->
                [shape |-> "Line", start |-> <<Int2Rat(i), R0>>,
                 end |-> <<Int2Rat(i), R100>>, stroke |-> "lightgray"]]
         \o [i \in 1..(int(height) - 1) |->
                [shape |-> "Line", start |-> <<R0, Int2Rat(i)>>,
                 end |-> <<R100, Int2Rat(i)>>, stroke |-> "lightgray"]]
    ELSE <<>>

\* the elements of the drawing before any annotation is added
tree_markup == debug_grid \o svg_add_subtree(layout)

svg_build_tree ==
    [shape |-> "Drawing", size |-> <<max_width, height>>,
     elements |-> tree_markup \o annotations]

get_svg ==
    With(svg_build_tree, LAMBDA drawing :
        [drawing EXCEPT !.elements = drawing.elements \o annotations])

SvgBuildTree ==
    /\ ret' = Returned("svg_build_tree", <<>>, svg_build_tree)
    /\ UNCHANGED self

GetSvg ==
    /\ ret' = Returned("get_svg", <<>>, get_svg)
    /\ UNCHANGED self

(***************************************************************************)
(* SvgSpec: annotation calls with valid paths, and the building of the     *)
(* document, under every setting of debug and descend_direct.              *)
(***************************************************************************)
SvgOptions ==
    [horiz_spacing : {"TEXT"}, vert_align : {"CENTER"},
     leaf_padding : {2}, distance_to_daughter : {2},
     leaf_nodes_align : BOOLEAN, average_glyph_width : {2},
     debug : BOOLEAN, descend_direct : BOOLEAN]

SvgInit == \E t \in AnnotTrees, o \in SvgOptions : Construct(t, o)

SvgNext ==
    \/ /\ NumCalls < MaxCalls
       /\ \/ \E path \in ValidPaths(layout) : BoxConstituent(path)
          \/ \E path \in ValidPaths(layout) : UnderlineConstituent(path)
          \/ \E path1 \in ValidPaths(layout) : MovementArrow(path1, <<>>)
    \/ SvgBuildTree
    \/ GetSvg

SvgSpec == SvgInit /\ [][SvgNext]_vars

(***************************************************************************)
(* FrameSpec: the annotation calls and all the path queries, interleaved,  *)
(* with valid and invalid paths.                                           *)
(***************************************************************************)
FrameNext ==
    \/ /\ NumCalls < MaxCalls
       /\ \/ \E path \in CallPaths : BoxConstituent(path)
          \/ \E path \in CallPaths : UnderlineConstituent(path)
          \/ \E path1 \in CallPaths, path2 \in EndPaths : MovementArrow(path1, path2)
    \/ \E path \in CallPaths : SubtreeBounds(path)
    \/ \E path \in CallPaths : LeftmostPath(path)
    \/ \E path \in CallPaths : RightmostPath(path)
    \/ \E path1 \in CallPaths, path2 \in EndPaths : LeafSpanIter(path1, path2)

FrameSpec == AnnotInit /\ [][FrameNext]_vars

(***************************************************************************)
(* RowSpec: construction for trees whose labels have zero, one or two      *)
(* lines, at internal nodes and at leaves, under every vertical alignment, *)
(* followed by calls of label_y_dodge(level=..., height=0).                *)
(***************************************************************************)
RowLabels == {<<>>, <<"a">>, <<"a", NL, "b">>}

RECURSIVE RowTreesOfSize(_)
RECURSIVE RowForestsOfSize(_)
RowTreesOfSize(n) ==
    IF n = 1 THEN {Tree(l, <<>>) : l \in RowLabels}
    ELSE {Tree(l, f) : l \in RowLabels, f \in RowForestsOfSize(n - 1)}

RowForestsOfSize(m) ==
    UNION {{<<t>> \o rest : t \in RowTreesOfSize(k),
                            rest \in (IF k = m THEN {<<>>} ELSE RowForestsOfSize(m - k))}
           : k \in 1..m}

RowTrees == UNION {RowTreesOfSize(n) : n \in 1..MaxNodes}

RowOptions ==
    [horiz_spacing : {"TEXT"}, vert_align : VertAlign,
     leaf_padding : {2}, distance_to_daughter : {0, 2},
     leaf_nodes_align : BOOLEAN, average_glyph_width : {2}]

LabelYDodge(level) ==
    /\ ret' = Returned("label_y_dodge", <<level>>,
                       label_y_dodge(options, level_heights, level, R0))
    /\ UNCHANGED self

RowInit == \E t \in RowTrees, o \in RowOptions : Construct(t, o)

RowNext == \E level \in 0..depth : LabelYDodge(level)

RowSpec == RowInit /\ [][RowNext]_vars

(***************************************************************************)
(* Properties.                                                             *)
(***************************************************************************)
IsLeafPath(path) == sublayout(path).children = <<>>

\* the last call was op, made with the root path, and it returned
ReturnedAtRoot(op) ==
    ret.op = op /\ ret.outcome = "returned" /\ ret.args = << <<>> >>

\* C1: after construction, under every spacing policy, the normalized widths
\* of the children of every internal node sum to 100, and the x of each child
\* is the sum of the widths of its earlier siblings.
C1_ChildWidthsSumTo100 ==
    \A p \in ValidPaths(layout) :
        With(widths_of(sublayout(p).children), LAMBDA widths :
            widths # <<>> =>
                /\ RSum(widths) = R100
                /\ \A i \in 1..Len(widths) :
                       sublayout(p).children[i].node.x = RSum(SubSeq(widths, 1, i - 1)))

\* a layout under TEXT spacing with an internal node whose two children have
\* different widths, the second child starting where the first ends
C1_Witness ==
    /\ options.horiz_spacing = "TEXT"
    /\ \E p \in ValidPaths(layout) :
           With(sublayout(p).children, LAMBDA cs :
               /\ Len(cs) = 2
               /\ cs[1].node.width # cs[2].node.width
               /\ cs[2].node.x = cs[1].node.width
               /\ cs[2].node.x # R0)

\* C6: leftmost_path() and rightmost_path() from the root return a path that
\* identifies a leaf of the layout and is no longer than the tree depth.
C6_NmostPathEndsAtLeaf ==
    (ReturnedAtRoot("leftmost_path") \/ ReturnedAtRoot("rightmost_path")) =>
        /\ valid_path(layout, ret.value)
        /\ IsLeafPath(ret.value)
        /\ Len(ret.value) <= depth

\* rightmost_path() has descended two levels, and leftmost_path() has stopped
\* at a leaf above the deepest level
C6_Witness ==
    \/ ReturnedAtRoot("rightmost_path") /\ Len(ret.value) = 2
    \/ ReturnedAtRoot("leftmost_path") /\ Len(ret.value) = 1 /\ depth = 2

\* a sequence holds every element of another one
HoldsAll(span, leaves) ==
    \A i \in 1..Len(leaves) : \E j \in 1..Len(span) : span[j] = leaves[i]

\* span is a run of consecutive elements of all
IsRunOf(span, all) ==
    \E k \in 0..Len(all) : SubSeq(all, k + 1, k + Len(span)) = span

\* C7: for two valid paths in either order, leaf_span_iter yields a
\* contiguous left-to-right run of leaves that holds every leaf under path1
\* and every leaf under path2 (also when one path is a prefix of the other),
\* and it yields the same run when the two paths are exchanged.
C7_LeafSpanCoversBothPaths ==
    (ret.op = "leaf_span_iter" /\ ret.outcome = "returned") =>
        /\ IsRunOf(ret.value, leaf_iter(layout))
        /\ HoldsAll(ret.value, leaf_iter(sublayout(ret.args[1])))
        /\ HoldsAll(ret.value, leaf_iter(sublayout(ret.args[2])))
        /\ ret.value = leaf_span_iter(ret.args[2], ret.args[1])

\* C8 as claimed: with leaf_nodes_align, every node keeps its structural depth
\* (the length of its path) in its depth attribute.
C8_EveryNodeKeepsTrueDepth ==
    options.leaf_nodes_align =>
        \A p \in ValidPaths(layout) : sublayout(p).node.depth = Len(p)

\* the greatest height of the labels created at level d, 0 when there is none
RowHeight(d) ==
    With({R0} \cup {sublayout(p).node.inner_height :
                       p \in {q \in ValidPaths(layout) : sublayout(q).node.depth = d}},
         LAMBDA hs : CHOOSE m \in hs : \A h \in hs : RLe(h, m))

\* C8 as amended: with leaf_nodes_align, every internal node keeps its
\* structural depth, the depth attribute of every leaf is the depth of the
\* tree, and level_heights aggregates every node at its depth attribute.
C8_LeavesTakeTreeDepth ==
    options.leaf_nodes_align =>
        /\ \A p \in ValidPaths(layout) :
               sublayout(p).node.depth = IF IsLeafPath(p) THEN depth ELSE Len(p)
        /\ \A d \in 0..depth : level_heights[d] = RowHeight(d)

\* a layout with aligned leaves, one of them above the deepest level
C8_Witness ==
    /\ options.leaf_nodes_align
    /\ \E p \in ValidPaths(layout) :
           IsLeafPath(p) /\ Len(p) < depth /\ sublayout(p).node.depth = depth

SingleLine(label) == Len(SplitLines(label)) = 1

\* the pairs of leaf siblings with single-line labels, the first label longer:
\* <<parent path, index of the longer, index of the shorter>>
LeafSiblingPairs ==
    {<<p, i, j>> \in {<<p, i, j>> : p \in ValidPaths(layout),
                                   i \in 0..(MaxNodes - 1), j \in 0..(MaxNodes - 1)} :
        /\ i < Len(sublayout(p).children)
        /\ j < Len(sublayout(p).children)
        /\ IsLeafPath(Append(p, i))
        /\ IsLeafPath(Append(p, j))
        /\ SingleLine(tree_car(subtree_at(tree, Append(p, i))))
        /\ SingleLine(tree_car(subtree_at(tree, Append(p, j))))
        /\ Len(tree_car(subtree_at(tree, Append(p, i))))
               > Len(tree_car(subtree_at(tree, Append(p, j))))}

\* the longer label has the strictly larger width, and the widths are in the
\* ratio of the label_width values
WiderInRatio(p, i, j) ==
    With(sublayout(Append(p, i)).node.width, LAMBDA wi :
    With(sublayout(Append(p, j)).node.width, LAMBDA wj :
    With(label_width(options, tree_car(subtree_at(tree, Append(p, i)))), LAMBDA li :
    With(label_width(options, tree_car(subtree_at(tree, Append(p, j)))), LAMBDA lj :
        RLt(wj, wi) /\ RMul(wi, lj) = RMul(wj, li)))))

\* C9 as claimed: under TEXT spacing, of two leaf siblings with single-line
\* labels the one with the longer label has the strictly larger width, in the
\* ratio of the label_width values, for every leaf_padding and
\* average_glyph_width.
C9_LongerLabelIsWider ==
    options.horiz_spacing = "TEXT" =>
        \A t \in LeafSiblingPairs : WiderInRatio(t[1], t[2], t[3])

\* C9 as amended: the same, provided the label_width of the shorter label is
\* at least 1, the least width NodePos gives a node.
C9_LongerLabelIsWiderAboveFloor ==
    options.horiz_spacing = "TEXT" =>
        \A t \in LeafSiblingPairs :
            RLe(Int2Rat(1),
                label_width(options, tree_car(subtree_at(tree, Append(t[1], t[3])))))
                => WiderInRatio(t[1], t[2], t[3])

\* a TEXT layout with two leaf siblings of different label lengths, both
\* labels at least 1 wide
C9_Witness ==
    /\ options.horiz_spacing = "TEXT"
    /\ \E t \in LeafSiblingPairs :
           /\ RLe(Int2Rat(1),
                  label_width(options, tree_car(subtree_at(tree, Append(t[1], t[3])))))
           /\ WiderInRatio(t[1], t[2], t[3])

\* the operations that take paths and are named by the claim about invalid
\* paths
PathOps ==
    {"box_constituent", "underline_constituent", "movement_arrow",
     "subtree_bounds", "sublayout"}

\* C2: a call of box_constituent, underline_constituent, movement_arrow,
\* subtree_bounds or sublayout with a path that has an out-of-range index at
\* some step (for movement_arrow: in either path) signals the invalid-path
\* error and leaves the layout, the annotation list, extra_y and the list of
\* placed arrows as they were.  ret' describes the call made by the step.
C2_InvalidPathLeavesStateUnchanged ==
    [][(/\ ret'.op \in PathOps
        /\ \E i \in 1..Len(ret'.args) : ~valid_path(layout, ret'.args[i]))
           => (ret'.outcome = "AttributeError" /\ UNCHANGED self)]_vars

\* movement_arrow has raised for its second path alone, on a layout that
\* already carries an arrow
C2_Witness ==
    /\ ret.op = "movement_arrow"
    /\ ret.outcome = "AttributeError"
    /\ valid_path(layout, ret.args[1])
    /\ ~valid_path(layout, ret.args[2])
    /\ Len(movement_arrows) = 1
    /\ Len(annotations) = 5

\* C5 as claimed: subtree_bounds of the root path is (0, 0, 100, height()).
C5_RootBoundsSpanCanvasHeight ==
    ReturnedAtRoot("subtree_bounds") => ret.value = <<R0, R0, R100, height>>

\* C5 as amended: subtree_bounds of the root path is (0, 0, 100, h) with
\* h = height() - extra_y + 0.5: the rows of the tree and the margin of 0.5,
\* without the room reserved below the tree.
C5_RootBoundsSpanTreeRows ==
    ReturnedAtRoot("subtree_bounds") =>
        ret.value = <<R0, R0, R100, RAdd(RSub(height, extra_y), Rat(1, 2))>>

\* subtree_bounds(()) has returned on a tree of depth 2, after an arrow has
\* grown extra_y
C5_Witness ==
    /\ ReturnedAtRoot("subtree_bounds")
    /\ depth = 2
    /\ extra_y = Int2Rat(2)
    /\ RLt(ret.value[4], height)

\* the horizontal spans [x1, x2] of two placed arrows have a point in common
SpansOverlap(a, b) == RLe(a[1], b[2]) /\ RLe(b[1], a[2])

\* C3: no two placed arrows whose horizontal spans overlap (identical and
\* zero-length spans included) are routed at the same height.
C3_OverlappingArrowsDifferInHeight ==
    \A i \in 1..Len(movement_arrows) : \A j \in (i + 1)..Len(movement_arrows) :
        SpansOverlap(movement_arrows[i], movement_arrows[j])
            => movement_arrows[i][3] # movement_arrows[j][3]

\* C4: the routed height of every placed arrow is at most the canvas height
\* height().
C4_ArrowsFitCanvas ==
    \A k \in 1..Len(movement_arrows) : RLe(movement_arrows[k][3], height)

\* the spans of two placed arrows have more than an end point in common, or
\* one of them is a single point inside the other
SpansCross(a, b) == RLt(a[1], b[2]) /\ RLt(b[1], a[2])

\* no arrow placed before the last one lies at height y with a span that
\* crosses the span of the last one
FreeForLast(y) ==
    \A k \in 1..(Len(movement_arrows) - 1) :
        ~(movement_arrows[k][3] = y
          /\ SpansCross(movement_arrows[k], movement_arrows[Len(movement_arrows)]))

\* an arrow placed before the last one lies at height y with a span that has
\* at least a point in common with the span of the last one
TakenForLast(y) ==
    \E k \in 1..(Len(movement_arrows) - 1) :
        /\ movement_arrows[k][3] = y
        /\ SpansOverlap(movement_arrows[k], movement_arrows[Len(movement_arrows)])

\* C10: movement_arrow places its arrow at the first free height: the least
\* default + 0.5 * k, k >= 0, at which no arrow placed before overlaps the
\* span of the new arrow; an arrow whose span is disjoint from all earlier
\* spans is placed at its default height.  Spans that only touch count as
\* overlapping where that explains a skipped height and as disjoint where
\* that explains the chosen one, so only a height skipped over spans that
\* share no point, or chosen over spans that cross, breaks the property.
C10_ArrowAtFirstFreeHeight ==
    (ret.op = "movement_arrow" /\ ret.outcome = "returned") =>
        With(arrow_default_y(ret.args[1], ret.args[2]), LAMBDA default :
            \E k \in 0..Len(movement_arrows) :
                /\ ret.value = RAdd(default, Rat(k, 2))
                /\ FreeForLast(ret.value)
                /\ \A m \in 0..(k - 1) : TakenForLast(RAdd(default, Rat(m, 2))))

\* the absolute bottom of row d: the offsets of the rows down to d plus the
\* height of row d
RowBottom(d) == RAdd(y_distance(0, d), level_heights[d])

\* C11: for any two valid paths, one of them an ancestor of the other or not,
\* the height at which movement_arrow routes its horizontal segment is
\* strictly greater than the bottom edge y + height of the bounding boxes of
\* both end points and than the bottom of the row of every leaf under either
\* end point.
C11_ArrowBelowBothEndpoints ==
    (ret.op = "movement_arrow" /\ ret.outcome = "returned") =>
        \A i \in 1..2 :
            /\ With(subtree_bounds(ret.args[i]), LAMBDA b :
                    RLt(RAdd(b[2], b[4]), ret.value))
            /\ With(leaf_iter(sublayout(ret.args[i])), LAMBDA leaves :
                    \A k \in 1..Len(leaves) :
                        RLt(RowBottom(leaves[k].depth), ret.value))

\* C12: after any sequence of box_constituent, underline_constituent and
\* movement_arrow calls, the document returned by get_svg holds, after all
\* the markup of the tree walk, the annotation shapes in the order in which
\* they were added, each of them exactly once.
C12_AnnotationsOnceInOrder ==
    (ret.op = "get_svg" /\ ret.outcome = "returned") =>
        ret.value.elements = tree_markup \o annotations

\* C13: every call of box_constituent, underline_constituent, movement_arrow,
\* subtree_bounds, leftmost_path, rightmost_path or leaf_span_iter after
\* construction leaves the positioned tree, level_heights, level_ys, depth and
\* max_width as they were; the annotation list after the call starts with the
\* list before it, and extra_y after the call is not smaller than before.
C13_LayoutFixedAnnotationsGrow ==
    [][/\ UNCHANGED <<layout, level_heights, level_ys, depth, max_width>>
       /\ Len(annotations) <= Len(annotations')
       /\ SubSeq(annotations', 1, Len(annotations)) = annotations
       /\ RLe(extra_y, extra_y')]_vars

\* a query has returned on a layout that carries a box and an arrow, the
\* arrow having grown extra_y
C13_Witness ==
    /\ ret.op = "leaf_span_iter"
    /\ ret.outcome = "returned"
    /\ Len(annotations) = 6
    /\ \E k \in 1..6 : annotations[k].shape = "Rect"
    /\ extra_y = Int2Rat(2)

\* the nodes of the layout
LayoutNodes == {sublayout(p).node : p \in ValidPaths(layout)}

\* the absolute top and bottom of the label of a node
LabelTop(node) == RAdd(y_distance(0, node.depth), node.y)

LabelBottom(node) == RAdd(LabelTop(node), node.height)

\* C14: after layout with a non-negative distance_to_daughter and any
\* vert_align, the label of every node stays inside its row (0 <= y and
\* y + height <= level_heights[depth]), level_ys[d] is distance_to_daughter
\* plus level_heights[d - 1] for every d >= 1, and the absolute bottom of a
\* label at depth d - 1 is never below the absolute top of a label at depth d.
C14_LabelsStayInsideRows ==
    /\ \A node \in LayoutNodes :
           /\ RLe(R0, node.y)
           /\ RLe(RAdd(node.y, node.height), level_heights[node.depth])
    /\ \A d \in 1..depth :
           level_ys[d] = RAdd(Int2Rat(options.distance_to_daughter),
                              level_heights[d - 1])
    /\ \A upper \in LayoutNodes, lower \in LayoutNodes :
           lower.depth = upper.depth + 1 =>
               RLe(LabelBottom(upper), LabelTop(lower))

\* a layout without distance between the rows, aligned at the bottom, in
\* which a one-line label shares the row above the deepest one with a
\* two-line label, and the rows differ in height
C14_Witness ==
    /\ options.distance_to_daughter = 0
    /\ options.vert_align = "BOTTOM"
    /\ depth >= 1
    /\ level_heights[depth - 1] # level_heights[depth]
    /\ \E node \in LayoutNodes :
           /\ node.depth = depth - 1
           /\ RLt(R0, node.y)
           /\ RLt(R0, node.height)
    /\ ret.op = "label_y_dodge"

====
